---------------------------- MODULE Spec2Model ----------------------------
(***************************************************************************)
(* A model of the awsbatch command-line client: the commander front end    *)
(* (src/src/index.js), the resource operations and the signed transport    *)
(* (src/unnamed/part_001, imported by index.js as ./api.js).               *)
(*                                                                         *)
(* Spec      one CLI invocation: commander parses argv, the selected       *)
(*           handler runs up to its await of the HTTP call, the call       *)
(*           settles, the handler resumes and the process exits.           *)
(* SpecSign  the signer (buildAuthHeader) statement by statement, with     *)
(*           the wall clock advancing between statements.                  *)
(***************************************************************************)
EXTENDS Integers, Sequences, FiniteSets, TLC

(***************************************************************************)
(* JavaScript values.  Every value is a record tagged by its type, so that *)
(* values of different types can be compared.                              *)
(***************************************************************************)
Undef == [t |-> "undefined"]
Null == [t |-> "null"]
Bool(b) == [t |-> "boolean", b |-> b]
Num(n) == [t |-> "number", n |-> n]
Str(s) == [t |-> "string", s |-> s]
Arr(a) == [t |-> "array", a |-> a]
Obj(o) == [t |-> "object", o |-> o]
EmptyObj == Obj(<<>>)

\* ToBoolean: undefined, null, false, 0 and "" are falsy; arrays and objects are truthy.
Truthy(v) ==
  CASE v.t = "undefined" -> FALSE
    [] v.t = "null" -> FALSE
    [] v.t = "boolean" -> v.b
    [] v.t = "number" -> v.n # 0
    [] v.t = "string" -> v.s # ""
    [] OTHER -> TRUE

\* a || b
Or(a, b) == IF Truthy(a) THEN a ELSE b

\* v?.key : undefined when v is nullish, is no object, or has no such key.
Get(v, key) ==
  IF v.t = "object" /\ key \in DOMAIN v.o THEN v.o[key] ELSE Undef

\* a[i] for the 0-based index i of an array.
At(v, i) ==
  IF v.t = "array" /\ i + 1 \in DOMAIN v.a THEN v.a[i + 1] ELSE Undef

\* { ...a, ...(cond && { key: val }) }: the key is added only when cond is truthy.
SpreadIf(o, cond, key, val) ==
  IF Truthy(cond)
    THEN [k \in DOMAIN o \cup {key} |-> IF k = key THEN val ELSE o[k]]
    ELSE o

\* o[key] = val on an object literal under construction.
Put(o, key, val) == [k \in DOMAIN o \cup {key} |-> IF k = key THEN val ELSE o[k]]

\* JSON.stringify: a key whose value is undefined is not serialized; the text is
\* modelled by the value it denotes, tagged as text.
RECURSIVE Serializable(_)
Serializable(v) ==
  CASE v.t = "object" ->
         LET keep == {k \in DOMAIN v.o : v.o[k].t # "undefined"}
         IN  Obj([k \in keep |-> Serializable(v.o[k])])
    [] v.t = "array" ->
         Arr([i \in DOMAIN v.a |->
               IF v.a[i].t = "undefined" THEN Null ELSE Serializable(v.a[i])])
    [] OTHER -> v

JSONstringify(v) ==
  IF v.t = "undefined" THEN Undef ELSE [t |-> "json", of |-> Serializable(v)]

(***************************************************************************)
(* JSON.parse on the option texts the model supplies.                      *)
(***************************************************************************)
ValidJsonTexts == {"{\"k\":\"v\"}", "[\"ce\"]", "null", "0"}
InvalidJsonTexts == {"", "{bad"}
JsonTexts == ValidJsonTexts \cup InvalidJsonTexts

\* [ok |-> FALSE] stands for the SyntaxError JSON.parse throws.
JSONparse(text) ==
  CASE text = "{\"k\":\"v\"}" -> [ok |-> TRUE, value |-> Obj([k |-> Str("v")])]
    [] text = "[\"ce\"]" -> [ok |-> TRUE, value |-> Arr(<<Str("ce")>>)]
    [] text = "null" -> [ok |-> TRUE, value |-> Null]
    [] text = "0" -> [ok |-> TRUE, value |-> Num(0)]
    [] OTHER -> [ok |-> FALSE, value |-> Undef]

\* parseInt on the numeric option texts the model supplies (NaN is modelled as 0:
\* both are falsy numbers).
parseInt(text) ==
  CASE text = "1" -> 1
    [] text = "10" -> 10
    [] text = "50" -> 50
    [] OTHER -> 0

\* encodeURIComponent on the names the model supplies: a space is escaped, the
\* unreserved characters of the other names are kept.
encodeURIComponent(s) ==
  CASE s = "my queue" -> "my%20queue"
    [] s = "a&b" -> "a%26b"
    [] OTHER -> s

(***************************************************************************)
(* Strings that are sliced are sequences of one-character strings; ToStr   *)
(* turns one into a string that can be concatenated.                       *)
(***************************************************************************)
RECURSIVE ToStr(_)
ToStr(chars) == IF chars = <<>> THEN "" ELSE Head(chars) \o ToStr(Tail(chars))

\* String.prototype.slice(from, to) for 0 <= from <= to.
Slice(chars, from, to) ==
  SubSeq(chars, from + 1, IF to < Len(chars) THEN to ELSE Len(chars))

DigitChars == <<"0", "1", "2", "3", "4", "5", "6", "7", "8", "9">>
IsDigit(c) == \E i \in DOMAIN DigitChars : DigitChars[i] = c

\* n in decimal, zero-padded to w digits.
RECURSIVE Pad(_, _)
Pad(n, w) ==
  IF w = 0 THEN <<>> ELSE Append(Pad(n \div 10, w - 1), DigitChars[(n % 10) + 1])

(***************************************************************************)
(* The wall clock.  An instant is [sec, ms]: whole seconds since the epoch *)
(* and the milliseconds within the second (a 64-bit count of milliseconds  *)
(* does not fit the checker's integers).  The clock starts at BaseSec      *)
(* seconds, shortly before a UTC midnight, and advances TickMs             *)
(* milliseconds a tick, at most MaxTicks times.                            *)
(***************************************************************************)
BaseSec == 1440979199
TickMs == 500
MaxTicks == 3

Instant(ticks) ==
  [sec |-> BaseSec + (ticks * TickMs) \div 1000, ms |-> (ticks * TickMs) % 1000]

\* The civil date (UTC) of a day count since 1970-01-01, by way of the day of
\* the 400-year era (doe), the year of the era (yoe), the day of the year
\* counted from 1 March (doy) and the month counted from March (mp).
CivilFromMp(y, doy, mp) ==
  [ year |-> y + (IF mp >= 10 THEN 1 ELSE 0),
    month |-> IF mp < 10 THEN mp + 3 ELSE mp - 9,
    day |-> doy - (153 * mp + 2) \div 5 + 1 ]

CivilFromDoy(y, doy) == CivilFromMp(y, doy, (5 * doy + 2) \div 153)

CivilFromYoe(era, doe, yoe) ==
  CivilFromDoy(yoe + era * 400, doe - (365 * yoe + yoe \div 4 - yoe \div 100))

CivilFromDoe(era, doe) ==
  CivilFromYoe(era, doe,
               (doe - doe \div 1460 + doe \div 36524 - doe \div 146096) \div 365)

CivilFromDays(days) ==
  CivilFromDoe((days + 719468) \div 146097, (days + 719468) % 146097)

\* Date.prototype.toISOString: YYYY-MM-DDTHH:mm:ss.sssZ
toISOString(now) ==
  LET date == CivilFromDays(now.sec \div 86400)
      secs == now.sec % 86400
  IN  Pad(date.year, 4) \o <<"-">> \o Pad(date.month, 2) \o <<"-">>
        \o Pad(date.day, 2) \o <<"T">> \o Pad(secs \div 3600, 2) \o <<":">>
        \o Pad((secs % 3600) \div 60, 2) \o <<":">> \o Pad(secs % 60, 2)
        \o <<".">> \o Pad(now.ms, 3) \o <<"Z">>

\* .replace(/[:-]|\.\d{3}/g, ''): every ':' and '-' is removed, and every '.'
\* that three digits follow is removed with them.
RECURSIVE StripPunctuation(_)
StripPunctuation(chars) ==
  IF chars = <<>> THEN <<>>
  ELSE IF Head(chars) \in {":", "-"} THEN StripPunctuation(Tail(chars))
  ELSE IF /\ Head(chars) = "."
          /\ Len(chars) >= 4
          /\ \A i \in 2..4 : IsDigit(chars[i])
    THEN StripPunctuation(SubSeq(chars, 5, Len(chars)))
  ELSE <<Head(chars)>> \o StripPunctuation(Tail(chars))

\* amzDate = now.toISOString().replace(...).slice(0, 15) + 'Z'
AmzDate(now) == Append(Slice(StripPunctuation(toISOString(now)), 0, 15), "Z")

\* dateStamp = amzDate.slice(0, 8)
DateStamp(amzDate) == Slice(amzDate, 0, 8)

(***************************************************************************)
(* Hashing.  A digest is the term of what was hashed: two digests are      *)
(* equal exactly when algorithm, key, message and encoding are.            *)
(***************************************************************************)
Bytes(s) == [utf8 |-> s]
Hmac(key, msg, enc) == [alg |-> "hmac-sha256", key |-> key, msg |-> msg, enc |-> enc]
Sha256Hex(msg) == [alg |-> "sha256", msg |-> msg, enc |-> "hex"]

\* crypto.createHmac('sha256', key).update(msg).digest(): the raw bytes.
sign(key, msg) == Hmac(key, msg, "raw")

\* A derivation that keys the region step by the service and the service step by
\* the region.
getSigningKeySwapped(secretKey, dateStamp, regionName, serviceName) ==
  sign(sign(sign(sign(Bytes("AWS4" \o secretKey), dateStamp), serviceName), regionName),
       "aws4_request")

getSigningKey(secretKey, dateStamp, regionName, serviceName) ==
  LET kDate == sign(Bytes("AWS4" \o secretKey), dateStamp)
      kRegion == sign(kDate, regionName)
      kService == sign(kRegion, serviceName)
  IN  sign(kService, "aws4_request")

(***************************************************************************)
(* URLs.  A URL is [host, pathname, params]; its search part is the        *)
(* parameters joined by '&' behind a '?', empty when there are none.       *)
(***************************************************************************)
RECURSIVE Join(_, _)
Join(parts, sep) ==
  IF parts = <<>> THEN ""
  ELSE IF Len(parts) = 1 THEN parts[1]
  ELSE parts[1] \o sep \o Join(Tail(parts), sep)

Search(url) == IF url.params = <<>> THEN "" ELSE "?" \o Join(url.params, "&")

\* queryString = parsedUrl.search ? parsedUrl.search.slice(1) : ''
QueryString(url) == IF Search(url) # "" THEN Join(url.params, "&") ELSE ""

\* A hash that takes a missing body for the JSON text of null.
PayloadHashOfNull(body) == Sha256Hex(IF Truthy(body) THEN body ELSE Null)

\* body || '' then SHA-256, hex.
PayloadHash(body) == Sha256Hex(Or(body, Str("")))

toUpperCase(method) ==
  CASE method = "get" -> "GET"
    [] method = "post" -> "POST"
    [] OTHER -> method

\* The canonical request, as the lines of the joined text (canonicalHeaders ends
\* with a newline, which leaves an empty line before the signed-header list).
CanonicalRequest(method, url, amzDate, payloadHash) ==
  << toUpperCase(method),
     url.pathname,
     QueryString(url),
     "host:" \o url.host,
     "x-amz-date:" \o ToStr(amzDate),
     "",
     "host;x-amz-date",
     payloadHash >>

CredentialScope(dateStamp, region, service) ==
  Join(<<ToStr(dateStamp), region, service, "aws4_request">>, "/")

StringToSign(amzDate, credentialScope, canonicalRequest) ==
  << "AWS4-HMAC-SHA256", ToStr(amzDate), credentialScope, Sha256Hex(canonicalRequest) >>

Signature(signingKey, stringToSign) == Hmac(signingKey, stringToSign, "hex")

Authorization(accessKeyId, credentialScope, signature) ==
  [ algorithm |-> "AWS4-HMAC-SHA256",
    credential |-> accessKeyId \o "/" \o credentialScope,
    signedHeaders |-> "host;x-amz-date",
    signature |-> signature ]

\* buildAuthHeader run at one go, the clock reading `now` at its new Date().
buildAuthHeader(in, now) ==
  LET amzDate == AmzDate(now)
      dateStamp == DateStamp(amzDate)
      payloadHash == PayloadHash(in.body)
      canonicalRequest == CanonicalRequest(in.method, in.url, amzDate, payloadHash)
      credentialScope == CredentialScope(dateStamp, in.region, in.service)
      stringToSign == StringToSign(amzDate, credentialScope, canonicalRequest)
      signingKey == getSigningKey(in.secretAccessKey, ToStr(dateStamp), in.region, in.service)
      signature == Signature(signingKey, stringToSign)
  IN  [ authorization |-> Authorization(in.accessKeyId, credentialScope, signature),
        amzDate |-> amzDate ]

(***************************************************************************)
(* State.                                                                  *)
(***************************************************************************)
VARIABLES
  store,     \* the settings store: config key -> value (undefined when unset)
  argv,      \* the command line: the subcommand and its arguments and options
  pc,        \* "parse", "action", "await", "settled", "exit"
  out,       \* what was printed, in order: [kind, data]
  exitCode,  \* the process's exit code once pc = "exit", else -1
  sent,      \* the HTTP calls handed to axios, in order
  reply,     \* how the HTTP call settled
  result,    \* what the resource operation returned or threw
  clock,     \* ticks of the wall clock
  call       \* SpecSign: the locals of each buildAuthHeader call

cliVars == <<store, argv, pc, out, exitCode, sent, reply, result>>
vars == <<store, argv, pc, out, exitCode, sent, reply, result, clock, call>>

(***************************************************************************)
(* The settings store (./config.js).                                       *)
(***************************************************************************)
ConfigKeys == {"accessKeyId", "secretAccessKey", "region"}

getConfig(key) == IF key \in DOMAIN store THEN store[key] ELSE Undef

isConfigured == Truthy(getConfig("accessKeyId")) /\ Truthy(getConfig("secretAccessKey"))

\* The keys that are set, in the store's order.
getAllConfig ==
  SelectSeq(<<"accessKeyId", "secretAccessKey", "region">>,
            LAMBDA k : store[k].t # "undefined")

(***************************************************************************)
(* The transport (getBatchClient, handleApiError).                         *)
(***************************************************************************)
Path(pathname, params) == [pathname |-> pathname, params |-> params]

getBatchClient ==
  LET region == Or(getConfig("region"), Str("us-east-1"))
  IN  [ accessKeyId |-> getConfig("accessKeyId"),
        secretAccessKey |-> getConfig("secretAccessKey"),
        region |-> region,
        baseURL |-> "batch." \o region.s \o ".amazonaws.com" ]

\* `${value}` of a string or of undefined.
Template(v) == IF v.t = "string" THEN v.s ELSE v.t

\* A client.request that serializes its data whatever it is: null as the text
\* "null".
requestSignsNull(method, path, data, now) ==
  LET client == getBatchClient
      url == [host |-> client.baseURL, pathname |-> path.pathname, params |-> path.params]
      signed == buildAuthHeader(
                  [ method |-> method, url |-> url, body |-> JSONstringify(data),
                    service |-> "batch", region |-> client.region.s,
                    accessKeyId |-> Template(client.accessKeyId),
                    secretAccessKey |-> Template(client.secretAccessKey) ], now)
  IN  [ method |-> method,
        url |-> url,
        data |-> Or(data, Undef),
        headers |-> [ Authorization |-> signed.authorization,
                      XAmzDate |-> signed.amzDate,
                      ContentType |-> "application/json",
                      Accept |-> "application/json" ] ]

\* client.request up to its await: what it hands to axios.
request(method, path, data, now) ==
  LET client == getBatchClient
      url == [host |-> client.baseURL, pathname |-> path.pathname, params |-> path.params]
      body == IF Truthy(data) THEN JSONstringify(data) ELSE Str("")
      signed == buildAuthHeader(
                  [ method |-> method, url |-> url, body |-> body,
                    service |-> "batch", region |-> client.region.s,
                    accessKeyId |-> Template(client.accessKeyId),
                    secretAccessKey |-> Template(client.secretAccessKey) ], now)
  IN  [ method |-> method,
        url |-> url,
        data |-> Or(data, Undef),
        headers |-> [ Authorization |-> signed.authorization,
                      XAmzDate |-> signed.amzDate,
                      ContentType |-> "application/json",
                      Accept |-> "application/json" ] ]

\* How axios settles: it resolves with the response when the status is 2xx and
\* rejects otherwise, with error.response when a response came, with only
\* error.request when none came, and with neither when the request was never made.
Resolved(status, data) ==
  [resolved |-> TRUE, response |-> TRUE, request |-> TRUE, status |-> status, data |-> data]
Rejected(status, data) ==
  [resolved |-> FALSE, response |-> TRUE, request |-> TRUE, status |-> status, data |-> data]
NoResponse ==
  [resolved |-> FALSE, response |-> FALSE, request |-> TRUE, status |-> 0, data |-> Undef]
NeverSent ==
  [resolved |-> FALSE, response |-> FALSE, request |-> FALSE, status |-> 0, data |-> Undef]
NoReply ==
  [resolved |-> FALSE, response |-> FALSE, request |-> FALSE, status |-> -1, data |-> Undef]

Error(message) == [message |-> message]

\* A handler that knows 401 but not 403 as an authentication failure.
handleApiErrorNo403(error) ==
  IF error.response THEN
    IF error.status = 401
      THEN Error(Str("AWS authentication failed. Check your accessKeyId and secretAccessKey."))
    ELSE IF error.status = 404 THEN Error(Str("Resource not found."))
    ELSE IF error.status = 429
      THEN Error(Str("Rate limit exceeded. Please wait before retrying."))
    ELSE Error([t |-> "AWS Batch Error", status |-> error.status,
                message |-> Or(Get(error.data, "message"),
                              Or(Get(error.data, "Message"),
                                Or(Get(error.data, "error"), JSONstringify(error.data))))])
  ELSE IF error.request
    THEN Error(Str("No response from AWS Batch API. Check your internet connection and region."))
  ELSE Error(Str("request setup failed"))

\* handleApiError never returns: this is the Error it throws.
handleApiError(error) ==
  IF error.response THEN
    IF error.status = 401 \/ error.status = 403
      THEN Error(Str("AWS authentication failed. Check your accessKeyId and secretAccessKey."))
    ELSE IF error.status = 404 THEN Error(Str("Resource not found."))
    ELSE IF error.status = 429
      THEN Error(Str("Rate limit exceeded. Please wait before retrying."))
    ELSE
      LET data == error.data
          message == Or(Get(data, "message"),
                       Or(Get(data, "Message"),
                         Or(Get(data, "error"), JSONstringify(data))))
      IN  Error([t |-> "AWS Batch Error", status |-> error.status, message |-> message])
  ELSE IF error.request
    THEN Error(Str("No response from AWS Batch API. Check your internet connection and region."))
  ELSE Error(Str("request setup failed"))

Returned(value) == [called |-> TRUE, threw |-> FALSE, value |-> value, error |-> Undef]
Threw(error) == [called |-> TRUE, threw |-> TRUE, value |-> Undef, error |-> error]
NotCalled == [called |-> FALSE, threw |-> FALSE, value |-> Undef, error |-> Undef]

\* client.request from its await on: response.data, or what handleApiError throws.
requestSettled(r) == IF r.resolved THEN Returned(r.data) ELSE Threw(handleApiError(r))

(***************************************************************************)
(* The resource operations.  Each is the call it makes, [method, path,     *)
(* data], and the unwrapping of what the call returned.                    *)
(***************************************************************************)
Call(method, path, data) == [method |-> method, path |-> path, data |-> data]

\* const data = await client.request(...); return <value>: an error thrown by
\* client.request leaves the operation at the await.
Unwrapped(r, value) == IF r.threw THEN r ELSE Returned(value)

\* A submitJob that puts both optional keys into the body whatever their value.
submitJobAlways(jobName, jobQueue, jobDefinition, parameters, containerOverrides) ==
  Call("POST", Path("/v1/submitjob", <<>>),
       Obj([ jobName |-> jobName, jobQueue |-> jobQueue, jobDefinition |-> jobDefinition,
             parameters |-> parameters, containerOverrides |-> containerOverrides ]))

submitJob(jobName, jobQueue, jobDefinition, parameters, containerOverrides) ==
  LET required == [jobName |-> jobName, jobQueue |-> jobQueue, jobDefinition |-> jobDefinition]
      body == SpreadIf(SpreadIf(required, parameters, "parameters", parameters),
                       containerOverrides, "containerOverrides", containerOverrides)
  IN  Call("POST", Path("/v1/submitjob", <<>>), Obj(body))

submitJobReturn(r) == Unwrapped(r, r.value)

describeJobs(jobIds) ==
  Call("POST", Path("/v1/describejobs", <<>>), Obj([jobs |-> jobIds]))

describeJobsReturn(r) == Unwrapped(r, Or(Get(r.value, "jobs"), Arr(<<>>)))

listJobs(jobQueue, jobStatus, maxResults) ==
  LET b1 == IF Truthy(jobQueue) THEN Put(<<>>, "jobQueue", jobQueue) ELSE <<>>
      b2 == IF Truthy(jobStatus) THEN Put(b1, "jobStatus", jobStatus) ELSE b1
      b3 == IF Truthy(maxResults) THEN Put(b2, "maxResults", maxResults) ELSE b2
  IN  Call("POST", Path("/v1/listjobs", <<>>), Obj(b3))

listJobsReturn(r) == Unwrapped(r, Or(Get(r.value, "jobSummaryList"), Arr(<<>>)))

terminateJob(jobId, reason) ==
  Call("POST", Path("/v1/terminatejob", <<>>),
       Obj([jobId |-> jobId, reason |-> Or(reason, Str("Terminated via CLI"))]))

terminateJobReturn(r) == Unwrapped(r, r.value)

\* client.request('GET', path): data takes its default, null.
listQueues == Call("GET", Path("/v1/jobqueues", <<>>), Null)

\* A listQueues that returns data.jobQueues with no default.
listQueuesNoDefault(r) == Unwrapped(r, Get(r.value, "jobQueues"))

listQueuesReturn(r) == Unwrapped(r, Or(Get(r.value, "jobQueues"), Arr(<<>>)))

getQueue(queueName) ==
  Call("GET",
       Path("/v1/jobqueues", <<"jobQueues=" \o encodeURIComponent(queueName.s)>>),
       Null)

getQueueReturn(r) == Unwrapped(r, Or(At(Or(Get(r.value, "jobQueues"), Arr(<<>>)), 0), Null))

createQueue(queueName, state, priority, computeEnvironmentOrder) ==
  Call("POST", Path("/v1/createjobqueue", <<>>),
       Obj([ jobQueueName |-> queueName,
             state |-> Or(state, Str("ENABLED")),
             priority |-> Or(priority, Num(1)),
             computeEnvironmentOrder |-> Or(computeEnvironmentOrder, Arr(<<>>)) ]))

createQueueReturn(r) == Unwrapped(r, r.value)

updateQueue(queueName, state, priority) ==
  LET b1 == [jobQueue |-> queueName]
      b2 == IF Truthy(state) THEN Put(b1, "state", state) ELSE b1
      b3 == IF priority.t # "undefined" THEN Put(b2, "priority", priority) ELSE b2
  IN  Call("POST", Path("/v1/updatejobqueue", <<>>), Obj(b3))

updateQueueReturn(r) == Unwrapped(r, r.value)

\* A listDefinitions that pushes the status filter before the name filter.
listDefinitionsStatusFirst(definitionName, status) ==
  LET p1 == IF Truthy(status) THEN <<"status=" \o encodeURIComponent(status.s)>> ELSE <<>>
      params == IF Truthy(definitionName)
                  THEN Append(p1, "jobDefinitionName=" \o encodeURIComponent(definitionName.s))
                  ELSE p1
  IN  Call("GET", Path("/v1/jobdefinitions", params), Null)

listDefinitions(definitionName, status) ==
  LET p1 == IF Truthy(definitionName)
              THEN <<"jobDefinitionName=" \o encodeURIComponent(definitionName.s)>>
              ELSE <<>>
      params == IF Truthy(status)
                  THEN Append(p1, "status=" \o encodeURIComponent(status.s))
                  ELSE p1
  IN  Call("GET", Path("/v1/jobdefinitions", params), Null)

listDefinitionsReturn(r) == Unwrapped(r, Or(Get(r.value, "jobDefinitions"), Arr(<<>>)))

describeDefinitions(definitionNames) ==
  Call("GET",
       Path("/v1/jobdefinitions",
            <<"jobDefinitionName=" \o encodeURIComponent(At(definitionNames, 0).s)>>),
       Null)

describeDefinitionsReturn(r) == Unwrapped(r, Or(Get(r.value, "jobDefinitions"), Arr(<<>>)))

registerDefinition(definitionName, type, containerProperties) ==
  LET required == [jobDefinitionName |-> definitionName, type |-> Or(type, Str("container"))]
  IN  Call("POST", Path("/v1/registerjobdefinition", <<>>),
           Obj(SpreadIf(required, containerProperties, "containerProperties",
                        containerProperties)))

registerDefinitionReturn(r) == Unwrapped(r, r.value)

(***************************************************************************)
(* The command lines the model runs.  An option that was not given is      *)
(* undefined, or its declared default; --json is the flag as typed.        *)
(***************************************************************************)
Opt(texts) == {Undef} \cup {Str(s) : s \in texts}
Given(texts) == {Str(s) : s \in texts}

ConfigArgvs ==
  [cmd : {"config get"}, key : {"region", "profile"}, json : BOOLEAN]
    \cup [cmd : {"config set"}, key : {"region"}, value : Given({"eu-west-1"}), json : BOOLEAN]
    \cup [cmd : {"config list"}, json : BOOLEAN]

JobsArgvs ==
  [cmd : {"jobs submit"}, name : Given({"my-job"}), queue : Given({"my-queue"}),
     definition : Given({"my-def"}), parameters : Opt(JsonTexts \ {"[\"ce\"]"}),
     containerOverrides : Opt({"{\"k\":\"v\"}", "{bad"}), json : BOOLEAN]
    \cup [cmd : {"jobs get"}, jobId : Given({"job-1"}), json : BOOLEAN]
    \cup [cmd : {"jobs list"}, queue : Given({"my-queue"}), status : Opt({"RUNNING"}),
            limit : Given({"50", "10"}), json : BOOLEAN]
    \cup [cmd : {"jobs terminate"}, jobId : Given({"job-1"}),
            reason : Given({"Terminated via CLI", "No longer needed"}), json : BOOLEAN]
    \cup [cmd : {"jobs describe"},
            jobIds : {Arr(<<Str("job-1")>>), Arr(<<Str("job-1"), Str("job-2")>>)},
            json : BOOLEAN]

QueuesArgvs ==
  [cmd : {"queues list"}, json : BOOLEAN]
    \cup [cmd : {"queues get"}, queueName : Given({"my-queue", "my queue"}), json : BOOLEAN]
    \cup [cmd : {"queues create"}, name : Given({"my-queue"}), state : Given({"ENABLED"}),
            priority : Given({"1", "10"}), computeEnvs : Opt({"[\"ce\"]", "", "{bad", "null"}),
            json : BOOLEAN]
    \cup [cmd : {"queues update"}, queueName : Given({"my-queue"}), state : Opt({"DISABLED"}),
            priority : Opt({"10"}), json : BOOLEAN]

DefinitionsArgvs ==
  [cmd : {"definitions list"}, name : Opt({"my-def"}), status : Given({"ACTIVE", ""}),
     json : BOOLEAN]
    \cup [cmd : {"definitions register"}, name : Given({"my-def"}), type : Given({"container"}),
            container : Opt({"{\"k\":\"v\"}", "", "{bad", "0"}), json : BOOLEAN]
    \cup [cmd : {"definitions describe"}, definitionName : Given({"my-def", "a&b"}),
            json : BOOLEAN]

Argvs == ConfigArgvs \cup JobsArgvs \cup QueuesArgvs \cup DefinitionsArgvs

\* The subcommands whose declaration has .option('--json', ...).
DeclaresJson ==
  { "jobs submit", "jobs get", "jobs list", "jobs describe",
    "queues list", "queues get", "queues create", "queues update",
    "definitions list", "definitions register", "definitions describe" }

Stores ==
  [ accessKeyId : Opt({"AKIDEXAMPLE"}),
    secretAccessKey : Opt({"wJalrXUtnFEMI/K7MDENG/bPxRfiCYEXAMPLEKEY", "other-secret"}),
    region : Opt({"eu-west-1"}) ]

(***************************************************************************)
(* What the server may answer.                                             *)
(***************************************************************************)
Item(n) == Obj([name |-> Str(n)])
Items == {Arr(<<>>), Arr(<<Item("a")>>), Arr(<<Item("a"), Item("b")>>)}

\* The envelope field the subcommand's resource operation unwraps ("" when it
\* returns the response as it is).
EnvelopeField(cmd) ==
  CASE cmd \in {"jobs get", "jobs describe"} -> "jobs"
    [] cmd = "jobs list" -> "jobSummaryList"
    [] cmd \in {"queues list", "queues get"} -> "jobQueues"
    [] cmd \in {"definitions list", "definitions describe"} -> "jobDefinitions"
    [] OTHER -> ""

\* An empty body, an object without the field, the field null, the field a list.
SuccessData(cmd) ==
  IF EnvelopeField(cmd) = ""
    THEN {Str(""), EmptyObj, Obj([jobId |-> Str("id-1")])}
    ELSE {Str(""), Null, EmptyObj, Obj(Put(<<>>, EnvelopeField(cmd), Null))}
           \cup {Obj(Put(<<>>, EnvelopeField(cmd), items)) : items \in Items}

FailStatuses == {400, 401, 403, 404, 429, 500}
ErrorData == {Obj([message |-> Str("denied")]), Obj([Message |-> Str("Denied")]), EmptyObj}

Replies(cmd) ==
  {Resolved(200, d) : d \in SuccessData(cmd)}
    \cup {Rejected(s, d) : s \in FailStatuses, d \in ErrorData}
    \cup {NoResponse, NeverSent}

(***************************************************************************)
(* The command layer (index.js).                                           *)
(***************************************************************************)
Event(kind, data) == [kind |-> kind, data |-> data]

printSuccess == Event("success", Undef)
printError(message) == Event("error", message)
printTable(data) == Event("table", data)
printJson(data) == Event("json", JSONstringify(data))
Detail == Event("detail", Undef)
Help == Event("help", Undef)

\* A handler ends the process: by process.exit(code), or by returning (code 0).
Exit(events, code, res) ==
  /\ out' = out \o events
  /\ exitCode' = code
  /\ pc' = "exit"
  /\ result' = res
  /\ UNCHANGED <<store, argv, sent, reply, clock, call>>

\* A handler reaches the await of its one resource operation, whose
\* client.request has handed the signed call to axios.
Send(c) ==
  /\ sent' = Append(sent, request(c.method, c.path, c.data, Instant(clock)))
  /\ pc' = "await"
  /\ UNCHANGED <<store, argv, out, exitCode, reply, result, clock, call>>

\* A requireAuth that prints nothing and never exits.
requireAuthNever == FALSE

\* requireAuth ends the process when the credentials are not configured.
requireAuthExits == ~isConfigured

RequireAuthExit ==
  Exit(<<printError(Str("AWS credentials not configured.")), Help>>, 1, NotCalled)

\* try { x = JSON.parse(text) } catch { printError(...); process.exit(1) } under
\* if (text): the parsed value, undefined when the option is falsy.
Parsed(text) == IF Truthy(text) THEN JSONparse(text.s).value ELSE Undef
ParseFails(text) == Truthy(text) /\ ~JSONparse(text.s).ok
InvalidJson(option) == Exit(<<printError(Str("Invalid JSON for " \o option))>>, 1, NotCalled)

\* withSpinner(message, fn): fn's result is returned and its error rethrown.
withSpinner(r) == IF r.threw THEN Threw(r.error) ELSE Returned(r.value)

\* catch (error) { printError(error.message); process.exit(1); }
Caught(r) == Exit(<<printError(r.error.message)>>, 1, r)

\* program.parse(process.argv): commander rejects an option the subcommand does
\* not declare (error on stderr, exit code 1) and else runs the handler.
Parse ==
  /\ pc = "parse"
  /\ IF argv.json /\ argv.cmd \notin DeclaresJson
       THEN Exit(<<Event("usage", Str("error: unknown option '--json'"))>>, 1, NotCalled)
       ELSE /\ pc' = "action"
            /\ UNCHANGED <<store, argv, out, exitCode, sent, reply, result, clock, call>>

\* The wall clock advances; only the signer reads it.
Tick ==
  /\ pc \in {"parse", "action"}
  /\ clock < MaxTicks
  /\ clock' = clock + 1
  /\ UNCHANGED <<store, argv, pc, out, exitCode, sent, reply, result, call>>

\* A transport that sends a failed call once more before it gives up.
SettleRetry ==
  /\ pc = "await"
  /\ \E r \in Replies(argv.cmd) :
       IF ~r.resolved /\ Len(sent) < 2
         THEN /\ sent' = Append(sent, sent[Len(sent)])
              /\ UNCHANGED <<pc, reply>>
         ELSE /\ reply' = r
              /\ pc' = "settled"
              /\ UNCHANGED sent
  /\ UNCHANGED <<store, argv, out, exitCode, result, clock, call>>

\* The try { await axios(...) } of client.request: the call settles.
Settle ==
  /\ pc = "await"
  /\ \E r \in Replies(argv.cmd) : reply' = r
  /\ pc' = "settled"
  /\ UNCHANGED <<store, argv, out, exitCode, sent, result, clock, call>>

ConfigGet ==
  /\ pc = "action" /\ argv.cmd = "config get"
  /\ LET value == getConfig(argv.key)
     IN  IF value.t = "undefined"
           THEN Exit(<<printError(Str("Key '" \o argv.key \o "' not found"))>>, 0, NotCalled)
           ELSE Exit(<<Event("value", value)>>, 0, NotCalled)

ConfigSet ==
  /\ pc = "action" /\ argv.cmd = "config set"
  /\ store' = [store EXCEPT ![argv.key] = argv.value]
  /\ out' = Append(out, printSuccess)
  /\ exitCode' = 0
  /\ pc' = "exit"
  /\ UNCHANGED <<argv, sent, reply, result, clock, call>>

\* The line config list prints for key k.
\* A line that masks all of the secret but its last four characters.
ConfigLineLastFour(k) ==
  Event("line",
        Str(k \o ": " \o (IF k = "secretAccessKey"
                            THEN "****" \o (IF store[k].s = "other-secret" THEN "cret" ELSE "EKEY")
                            ELSE store[k].s)))

ConfigLine(k) ==
  Event("line", Str(k \o ": " \o (IF k = "secretAccessKey" THEN "********" ELSE store[k].s)))

ConfigList ==
  /\ pc = "action" /\ argv.cmd = "config list"
  /\ LET all == getAllConfig
     IN  IF Len(all) = 0
           THEN Exit(<<Event("heading", Undef), Event("empty", Undef), Help>>, 0, NotCalled)
           ELSE Exit(<<Event("heading", Undef)>> \o [i \in DOMAIN all |-> ConfigLine(all[i])],
                     0, NotCalled)

\* What withSpinner hands the handler: the value the resource operation
\* returned, or the error client.request threw, which the operation lets pass.
Awaited(ret) == withSpinner(ret)

\* if (options.json) { printJson(x); return; } and else the formatted view.
Render(res, shown, view) ==
  IF argv.json THEN Exit(<<printJson(shown)>>, 0, res) ELSE Exit(view, 0, res)

JobsSubmit ==
  /\ pc = "action" /\ argv.cmd = "jobs submit"
  /\ IF requireAuthExits THEN RequireAuthExit
     ELSE IF ParseFails(argv.parameters) THEN InvalidJson("--parameters")
     ELSE IF ParseFails(argv.containerOverrides) THEN InvalidJson("--container-overrides")
     ELSE Send(submitJob(argv.name, argv.queue, argv.definition,
                         Parsed(argv.parameters), Parsed(argv.containerOverrides)))

JobsSubmitDone ==
  /\ pc = "settled" /\ argv.cmd = "jobs submit"
  /\ LET res == Awaited(submitJobReturn(requestSettled(reply)))
     IN  IF res.threw THEN Caught(res)
         ELSE Render(res, res.value, <<printSuccess, Detail>>)

JobsGet ==
  /\ pc = "action" /\ argv.cmd = "jobs get"
  /\ IF requireAuthExits THEN RequireAuthExit
     ELSE Send(describeJobs(Arr(<<argv.jobId>>)))

JobsGetDone ==
  /\ pc = "settled" /\ argv.cmd = "jobs get"
  /\ LET res == Awaited(describeJobsReturn(requestSettled(reply)))
         job == At(res.value, 0)
     IN  IF res.threw THEN Caught(res)
         ELSE IF ~Truthy(job) THEN Exit(<<printError(Str("Job not found"))>>, 1, res)
         ELSE Render(res, job, <<Detail>>)

JobsList ==
  /\ pc = "action" /\ argv.cmd = "jobs list"
  /\ IF requireAuthExits THEN RequireAuthExit
     ELSE Send(listJobs(argv.queue, argv.status, Num(parseInt(argv.limit.s))))

JobsListDone ==
  /\ pc = "settled" /\ argv.cmd = "jobs list"
  /\ LET res == Awaited(listJobsReturn(requestSettled(reply)))
     IN  IF res.threw THEN Caught(res)
         ELSE Render(res, res.value, <<printTable(res.value)>>)

JobsTerminate ==
  /\ pc = "action" /\ argv.cmd = "jobs terminate"
  /\ IF requireAuthExits THEN RequireAuthExit
     ELSE Send(terminateJob(argv.jobId, argv.reason))

JobsTerminateDone ==
  /\ pc = "settled" /\ argv.cmd = "jobs terminate"
  /\ LET res == Awaited(terminateJobReturn(requestSettled(reply)))
     IN  IF res.threw THEN Caught(res)
         ELSE Exit(<<printSuccess>>, 0, res)

JobsDescribe ==
  /\ pc = "action" /\ argv.cmd = "jobs describe"
  /\ IF requireAuthExits THEN RequireAuthExit
     ELSE Send(describeJobs(argv.jobIds))

JobsDescribeDone ==
  /\ pc = "settled" /\ argv.cmd = "jobs describe"
  /\ LET res == Awaited(describeJobsReturn(requestSettled(reply)))
     IN  IF res.threw THEN Caught(res)
         ELSE Render(res, res.value, <<printTable(res.value)>>)

QueuesList ==
  /\ pc = "action" /\ argv.cmd = "queues list"
  /\ IF requireAuthExits THEN RequireAuthExit
     ELSE Send(listQueues)

QueuesListDone ==
  /\ pc = "settled" /\ argv.cmd = "queues list"
  /\ LET res == Awaited(listQueuesReturn(requestSettled(reply)))
     IN  IF res.threw THEN Caught(res)
         ELSE Render(res, res.value, <<printTable(res.value)>>)

QueuesGet ==
  /\ pc = "action" /\ argv.cmd = "queues get"
  /\ IF requireAuthExits THEN RequireAuthExit
     ELSE Send(getQueue(argv.queueName))

QueuesGetDone ==
  /\ pc = "settled" /\ argv.cmd = "queues get"
  /\ LET res == Awaited(getQueueReturn(requestSettled(reply)))
     IN  IF res.threw THEN Caught(res)
         ELSE IF ~Truthy(res.value) THEN Exit(<<printError(Str("Queue not found"))>>, 1, res)
         ELSE Render(res, res.value, <<Detail>>)

QueuesCreate ==
  /\ pc = "action" /\ argv.cmd = "queues create"
  /\ IF requireAuthExits THEN RequireAuthExit
     ELSE IF ParseFails(argv.computeEnvs) THEN InvalidJson("--compute-envs")
     ELSE Send(createQueue(argv.name, argv.state, Num(parseInt(argv.priority.s)),
                           IF Truthy(argv.computeEnvs)
                             THEN Parsed(argv.computeEnvs) ELSE Arr(<<>>)))

QueuesCreateDone ==
  /\ pc = "settled" /\ argv.cmd = "queues create"
  /\ LET res == Awaited(createQueueReturn(requestSettled(reply)))
     IN  IF res.threw THEN Caught(res)
         ELSE Render(res, res.value,
                     IF Truthy(res.value) THEN <<printSuccess, Detail>> ELSE <<printSuccess>>)

QueuesUpdate ==
  /\ pc = "action" /\ argv.cmd = "queues update"
  /\ IF requireAuthExits THEN RequireAuthExit
     ELSE Send(updateQueue(argv.queueName, argv.state,
                           IF Truthy(argv.priority)
                             THEN Num(parseInt(argv.priority.s)) ELSE Undef))

QueuesUpdateDone ==
  /\ pc = "settled" /\ argv.cmd = "queues update"
  /\ LET res == Awaited(updateQueueReturn(requestSettled(reply)))
     IN  IF res.threw THEN Caught(res)
         ELSE Render(res, res.value, <<printSuccess>>)

DefinitionsList ==
  /\ pc = "action" /\ argv.cmd = "definitions list"
  /\ IF requireAuthExits THEN RequireAuthExit
     ELSE Send(listDefinitions(argv.name, argv.status))

DefinitionsListDone ==
  /\ pc = "settled" /\ argv.cmd = "definitions list"
  /\ LET res == Awaited(listDefinitionsReturn(requestSettled(reply)))
     IN  IF res.threw THEN Caught(res)
         ELSE Render(res, res.value, <<printTable(res.value)>>)

DefinitionsRegister ==
  /\ pc = "action" /\ argv.cmd = "definitions register"
  /\ IF requireAuthExits THEN RequireAuthExit
     ELSE IF ParseFails(argv.container) THEN InvalidJson("--container")
     ELSE Send(registerDefinition(argv.name, argv.type, Parsed(argv.container)))

DefinitionsRegisterDone ==
  /\ pc = "settled" /\ argv.cmd = "definitions register"
  /\ LET res == Awaited(registerDefinitionReturn(requestSettled(reply)))
     IN  IF res.threw THEN Caught(res)
         ELSE Render(res, res.value,
                     IF Truthy(res.value) THEN <<printSuccess, Detail>> ELSE <<printSuccess>>)

DefinitionsDescribe ==
  /\ pc = "action" /\ argv.cmd = "definitions describe"
  /\ IF requireAuthExits THEN RequireAuthExit
     ELSE Send(describeDefinitions(Arr(<<argv.definitionName>>)))

DefinitionsDescribeDone ==
  /\ pc = "settled" /\ argv.cmd = "definitions describe"
  /\ LET res == Awaited(describeDefinitionsReturn(requestSettled(reply)))
         definitions == res.value
     IN  IF res.threw THEN Caught(res)
         ELSE IF argv.json THEN Exit(<<printJson(definitions)>>, 0, res)
         ELSE IF ~Truthy(definitions) \/ Len(definitions.a) = 0
           THEN Exit(<<printError(Str("Job definition not found"))>>, 1, res)
         ELSE Exit(<<Detail>>, 0, res)

Init ==
  /\ store \in Stores
  /\ argv \in Argvs
  /\ pc = "parse"
  /\ out = <<>>
  /\ exitCode = -1
  /\ sent = <<>>
  /\ reply = NoReply
  /\ result = NotCalled
  /\ clock = 0
  /\ call = <<>>

Next ==
  \/ Parse \/ Tick \/ Settle
  \/ ConfigGet \/ ConfigSet \/ ConfigList
  \/ JobsSubmit \/ JobsSubmitDone \/ JobsGet \/ JobsGetDone
  \/ JobsList \/ JobsListDone \/ JobsTerminate \/ JobsTerminateDone
  \/ JobsDescribe \/ JobsDescribeDone
  \/ QueuesList \/ QueuesListDone \/ QueuesGet \/ QueuesGetDone
  \/ QueuesCreate \/ QueuesCreateDone \/ QueuesUpdate \/ QueuesUpdateDone
  \/ DefinitionsList \/ DefinitionsListDone
  \/ DefinitionsRegister \/ DefinitionsRegisterDone
  \/ DefinitionsDescribe \/ DefinitionsDescribeDone

Spec == Init /\ [][Next]_vars

(***************************************************************************)
(* SpecSign: buildAuthHeader statement by statement, and client.request's  *)
(* call of axios with what it returned.  The function is synchronous, so   *)
(* one call runs from its first statement to its return before another     *)
(* starts, while earlier calls are at their await; the wall clock advances *)
(* at any time.                                                            *)
(***************************************************************************)
Calls == {"a", "b"}

Unset == <<>>

SignUrls ==
  { [host |-> "batch.us-east-1.amazonaws.com", pathname |-> "/v1/jobqueues", params |-> <<>>],
    [host |-> "batch.us-east-1.amazonaws.com", pathname |-> "/v1/submitjob", params |-> <<>>] }

\* What client.request passes: a GET has the body '', a POST its serialized data.
SignInputs ==
  { in \in [ method : {"GET", "POST"}, url : SignUrls,
             body : {Str(""), JSONstringify(Obj([jobName |-> Str("my-job")]))},
             service : {"batch"}, region : {"us-east-1"},
             accessKeyId : {"AKIDEXAMPLE"},
             secretAccessKey : {"wJalrXUtnFEMI/K7MDENG/bPxRfiCYEXAMPLEKEY", "other-secret"} ] :
      /\ (in.method = "GET") = (in.body = Str(""))
      /\ (in.method = "GET") = (in.url.pathname = "/v1/jobqueues") }

Locals(in) ==
  [ pc |-> "idle", in |-> in, reads |-> 0, now |-> Unset, amzDate |-> Unset,
    dateStamp |-> Unset, payloadHash |-> Unset, canonicalRequest |-> Unset,
    credentialScope |-> Unset, stringToSign |-> Unset, signingKey |-> Unset,
    signature |-> Unset, returned |-> Unset, axios |-> Unset ]

SignStep(c, from, to) ==
  /\ call[c].pc = from
  /\ UNCHANGED <<cliVars, clock>>

\* A signer that keeps the formatted timestamp in a variable of the module and
\* formats it only when no call has set it yet.
CaptureCached(c) ==
  /\ SignStep(c, "idle", "captured")
  /\ \A d \in Calls : call[d].pc \in {"idle", "returned", "awaiting"}
  /\ LET now == Instant(clock)
         set == {d \in Calls : call[d].amzDate # Unset}
         amzDate == IF set = {} THEN AmzDate(now) ELSE call[CHOOSE d \in set : TRUE].amzDate
     IN  call' = [call EXCEPT ![c].pc = "captured", ![c].reads = @ + 1, ![c].now = now,
                              ![c].amzDate = amzDate,
                              ![c].dateStamp = DateStamp(amzDate)]

\* const now = new Date(); amzDate; dateStamp.  No other call is inside the function.
Capture(c) ==
  /\ SignStep(c, "idle", "captured")
  /\ \A d \in Calls : call[d].pc \in {"idle", "returned", "awaiting"}
  /\ LET now == Instant(clock)
         amzDate == AmzDate(now)
     IN  call' = [call EXCEPT ![c].pc = "captured", ![c].reads = @ + 1, ![c].now = now,
                              ![c].amzDate = amzDate,
                              ![c].dateStamp = DateStamp(amzDate)]

\* payloadHash, canonicalHeaders, signedHeaders, canonicalRequest.
Canonicalize(c) ==
  /\ SignStep(c, "captured", "canonical")
  /\ LET payloadHash == PayloadHash(call[c].in.body)
     IN  call' = [call EXCEPT ![c].pc = "canonical", ![c].payloadHash = payloadHash,
                              ![c].canonicalRequest =
                                 CanonicalRequest(call[c].in.method, call[c].in.url,
                                                  call[c].amzDate, payloadHash)]

\* A signer that takes the date of the credential scope from a second new Date().
ScopeRereads(c) ==
  /\ SignStep(c, "canonical", "scoped")
  /\ LET dateStamp == DateStamp(AmzDate(Instant(clock)))
         credentialScope == CredentialScope(dateStamp, call[c].in.region, call[c].in.service)
     IN  call' = [call EXCEPT ![c].pc = "scoped", ![c].reads = @ + 1,
                              ![c].credentialScope = credentialScope,
                              ![c].stringToSign =
                                 StringToSign(call[c].amzDate, credentialScope,
                                              call[c].canonicalRequest)]

\* credentialScope, stringToSign.
Scope(c) ==
  /\ SignStep(c, "canonical", "scoped")
  /\ LET credentialScope ==
           CredentialScope(call[c].dateStamp, call[c].in.region, call[c].in.service)
     IN  call' = [call EXCEPT ![c].pc = "scoped", ![c].credentialScope = credentialScope,
                              ![c].stringToSign =
                                 StringToSign(call[c].amzDate, credentialScope,
                                              call[c].canonicalRequest)]

\* A signer that derives the key from the date at the time of the derivation.
DeriveKeyRereads(c) ==
  /\ SignStep(c, "scoped", "keyed")
  /\ LET signingKey == getSigningKey(call[c].in.secretAccessKey,
                                     ToStr(DateStamp(AmzDate(Instant(clock)))),
                                     call[c].in.region, call[c].in.service)
     IN  call' = [call EXCEPT ![c].pc = "keyed", ![c].signingKey = signingKey,
                              ![c].signature = Signature(signingKey, call[c].stringToSign)]

\* signingKey, signature.
DeriveKey(c) ==
  /\ SignStep(c, "scoped", "keyed")
  /\ LET signingKey == getSigningKey(call[c].in.secretAccessKey, ToStr(call[c].dateStamp),
                                     call[c].in.region, call[c].in.service)
     IN  call' = [call EXCEPT ![c].pc = "keyed", ![c].signingKey = signingKey,
                              ![c].signature = Signature(signingKey, call[c].stringToSign)]

\* authorization; return { authorization, amzDate }.
Assemble(c) ==
  /\ SignStep(c, "keyed", "returned")
  /\ call' = [call EXCEPT ![c].pc = "returned",
                          ![c].returned =
                             [ authorization |->
                                 Authorization(call[c].in.accessKeyId,
                                               call[c].credentialScope, call[c].signature),
                               amzDate |-> call[c].amzDate ]]

\* client.request calls axios with the method and url it had signed and the two
\* values buildAuthHeader returned, and waits for the response.
Handoff(c) ==
  /\ SignStep(c, "returned", "awaiting")
  /\ call' = [call EXCEPT ![c].pc = "awaiting",
                          ![c].axios =
                             [ method |-> call[c].in.method,
                               url |-> call[c].in.url,
                               headers |->
                                 [ Authorization |-> call[c].returned.authorization,
                                   XAmzDate |-> call[c].returned.amzDate,
                                   ContentType |-> "application/json",
                                   Accept |-> "application/json" ] ]]

SignTick ==
  /\ clock < MaxTicks
  /\ clock' = clock + 1
  /\ UNCHANGED <<cliVars, call>>

InitSign ==
  /\ store = [accessKeyId |-> Undef, secretAccessKey |-> Undef, region |-> Undef]
  /\ argv = [cmd |-> "", json |-> FALSE]
  /\ pc = "embedded"
  /\ out = <<>>
  /\ exitCode = -1
  /\ sent = <<>>
  /\ reply = NoReply
  /\ result = NotCalled
  /\ clock = 0
  /\ \E ins \in [Calls -> SignInputs] : call = [c \in Calls |-> Locals(ins[c])]

NextSign ==
  \/ SignTick
  \/ \E c \in Calls :
       \/ Capture(c) \/ Canonicalize(c) \/ Scope(c) \/ DeriveKey(c) \/ Assemble(c)
       \/ Handoff(c)

SpecSign == InitSign /\ [][NextSign]_vars

(***************************************************************************)
(* Properties.                                                             *)
(***************************************************************************)
ApiCmds == DeclaresJson \cup {"jobs terminate"}

Kinds == {out[i].kind : i \in DOMAIN out}
Errors == {i \in DOMAIN out : out[i].kind = "error"}

\* The HTTP call of this invocation was made and failed.
CallFailed == reply # NoReply /\ ~reply.resolved

AuthenticationFailed ==
  Error(Str("AWS authentication failed. Check your accessKeyId and secretAccessKey."))
NotFound == Error(Str("Resource not found."))
RateLimited == Error(Str("Rate limit exceeded. Please wait before retrying."))
NetworkError ==
  Error(Str("No response from AWS Batch API. Check your internet connection and region."))

\* An ApiError for the failed call: it carries the status and the server's message
\* (the response's message, Message or error field, else the response as JSON text).
IsApiError(e) ==
  /\ e.message.t = "AWS Batch Error"
  /\ e.message.status = reply.status
  /\ Truthy(Get(reply.data, "message")) => e.message.message = Get(reply.data, "message")
  /\ e.message.message \in { Get(reply.data, "message"), Get(reply.data, "Message"),
                             Get(reply.data, "error"), JSONstringify(reply.data) }

\* C1: once the invocation has ended, a failed HTTP call has surfaced as a thrown
\* error, never as a return value, and the error is the one its outcome selects:
\* 401 and 403 give AuthenticationFailed, 404 NotFound, 429 RateLimited, any other
\* status an ApiError with that status and the server's message, and a request
\* without a response NetworkError.
C1_ErrorMapping ==
  (pc = "exit" /\ CallFailed) =>
    /\ result.called /\ result.threw
    /\ (reply.response /\ reply.status \in {401, 403}) => result.error = AuthenticationFailed
    /\ (reply.response /\ reply.status = 404) => result.error = NotFound
    /\ (reply.response /\ reply.status = 429) => result.error = RateLimited
    /\ (reply.response /\ reply.status \notin {401, 403, 404, 429}) => IsApiError(result.error)
    /\ (~reply.response /\ reply.request) => result.error = NetworkError

C1_Witness ==
  /\ pc = "exit"
  /\ reply = Rejected(403, Obj([message |-> Str("denied")]))
  /\ result.threw /\ result.error = AuthenticationFailed

\* C2: a jobs, queues or definitions subcommand started without configured
\* credentials never issues an HTTP request and, once ended, has exit code 1.
C2_NotConfiguredAborts ==
  (argv.cmd \in ApiCmds /\ ~isConfigured) =>
    /\ sent = <<>>
    /\ pc # "await" /\ pc # "settled"
    /\ pc = "exit" => exitCode = 1

C2_Witness ==
  /\ argv.cmd = "jobs terminate" /\ ~argv.json /\ ~isConfigured
  /\ pc = "exit" /\ exitCode = 1 /\ sent = <<>>
  /\ out[1] = printError(Str("AWS credentials not configured."))

\* The structured JSON options of the subcommand, as typed.
JsonOptions ==
  CASE argv.cmd = "jobs submit" -> {argv.parameters, argv.containerOverrides}
    [] argv.cmd = "queues create" -> {argv.computeEnvs}
    [] argv.cmd = "definitions register" -> {argv.container}
    [] OTHER -> {}

\* C3: when the text supplied for a structured JSON option is not valid JSON, no
\* HTTP request is issued and the invocation ends with exit code 1.
C3_InvalidJsonAborts ==
  (\E text \in JsonOptions : text # Undef /\ ~JSONparse(text.s).ok) =>
    /\ sent = <<>>
    /\ pc = "exit" => exitCode = 1

\* C4: an invocation that reported an error has exit code 1, and every other
\* invocation has exit code 0.
C4_ExitCodes ==
  pc = "exit" => (exitCode = 1 <=> Kinds \cap {"error", "usage"} # {})

\* C5: --json is accepted by every subcommand, and an invocation with --json that
\* ends without an error has printed its result as JSON and no table, detail
\* view or other formatted text.
C5_JsonEverywhere ==
  argv.json =>
    /\ "usage" \notin Kinds
    /\ (pc = "exit" /\ exitCode = 0) => Kinds = {"json"}

\* C6: an invocation sends at most one HTTP request, and one whose request failed
\* has sent exactly one and reported exactly one error.
C6_AtMostOneRequest ==
  /\ Len(sent) <= 1
  /\ (pc = "exit" /\ CallFailed) => (Len(sent) = 1 /\ Cardinality(Errors) = 1)
  /\ (pc = "exit" /\ result.called) => Len(sent) = 1

C6_Witness ==
  /\ pc = "exit" /\ argv.cmd = "queues update"
  /\ reply = NoResponse
  /\ Len(sent) = 1 /\ Cardinality(Errors) = 1

RequiredKeys == {"jobName", "jobQueue", "jobDefinition"}
OptionalKeys == {"parameters", "containerOverrides"}

\* What submitJob was given for an optional key: the parsed option, undefined
\* when the option was not typed.
SuppliedFor(key) ==
  IF key = "parameters" THEN Parsed(argv.parameters) ELSE Parsed(argv.containerOverrides)
TypedFor(key) ==
  IF key = "parameters" THEN argv.parameters ELSE argv.containerOverrides

\* C7: the body submitJob hands to the transport has the keys jobName, jobQueue
\* and jobDefinition, has an optional key only when a value was supplied for it
\* (and then with that value), and has no optional key whose value is null or
\* undefined; without optional values it has the three required keys only.
C7_SubmitBody ==
  (argv.cmd = "jobs submit" /\ sent # <<>>) =>
    LET body == sent[1].data.o
    IN  /\ sent[1].method = "POST" /\ sent[1].url.pathname = "/v1/submitjob"
        /\ RequiredKeys \subseteq DOMAIN body
        /\ DOMAIN body \subseteq RequiredKeys \cup OptionalKeys
        /\ body.jobName = argv.name /\ body.jobQueue = argv.queue
        /\ body.jobDefinition = argv.definition
        /\ \A k \in OptionalKeys \cap DOMAIN body :
             /\ TypedFor(k) # Undef
             /\ body[k] = SuppliedFor(k)
             /\ body[k].t \notin {"null", "undefined"}
        /\ (argv.parameters = Undef /\ argv.containerOverrides = Undef)
             => DOMAIN body = RequiredKeys

C7_Witness ==
  /\ argv.cmd = "jobs submit" /\ Len(sent) = 1
  /\ argv.parameters = Str("null") /\ argv.containerOverrides = Str("{\"k\":\"v\"}")
  /\ DOMAIN sent[1].data.o = RequiredKeys \cup {"containerOverrides"}

\* The subcommands whose resource operation is a list operation: describeJobs,
\* listJobs, listQueues, listDefinitions, describeDefinitions.
ListCmds ==
  {"jobs get", "jobs describe", "jobs list", "queues list", "definitions list",
   "definitions describe"}

\* The envelope field of the response (undefined when the response is no object
\* or has no such field).
Envelope == Get(reply.data, EnvelopeField(argv.cmd))

\* C8: on a successful response a list operation returns its envelope field's
\* list when the response holds one, and the empty list, without throwing, when
\* the response or the field is missing (or null).
C8_ListUnwrapping ==
  (pc = "exit" /\ argv.cmd \in ListCmds /\ reply.resolved) =>
    /\ result.called /\ ~result.threw
    /\ Envelope.t = "array" => result.value = Envelope
    /\ Envelope.t \in {"undefined", "null"} => result.value = Arr(<<>>)

C8_Witness ==
  /\ pc = "exit" /\ argv.cmd = "queues list" /\ reply.resolved
  /\ Envelope = Arr(<<Item("a"), Item("b")>>)
  /\ result.value = Arr(<<Item("a"), Item("b")>>)

C8_WitnessMissing ==
  /\ pc = "exit" /\ argv.cmd = "definitions describe" /\ reply.resolved
  /\ reply.data = EmptyObj
  /\ result.value = Arr(<<>>)

\* The calls that are past the statement that sets the named local.
Past(c, pcs) == call[c].pc \in pcs

\* C9: a signing operation reads the clock once, and the date in its credential
\* scope, the date its signing key is derived from, and the first 8 characters
\* of the amzDate it signs and returns are the same.
C9_OneInstant ==
  \A c \in Calls :
    LET date == ToStr(Slice(call[c].amzDate, 0, 8))
    IN  /\ call[c].reads <= 1
        /\ Past(c, {"captured", "canonical", "scoped", "keyed", "returned"}) =>
             /\ call[c].reads = 1
             /\ call[c].amzDate = AmzDate(call[c].now)
             /\ Len(call[c].amzDate) = 16
        /\ Past(c, {"canonical", "scoped", "keyed", "returned"}) =>
             call[c].canonicalRequest[5] = "x-amz-date:" \o ToStr(call[c].amzDate)
        /\ Past(c, {"scoped", "keyed", "returned"}) =>
             /\ call[c].credentialScope =
                  date \o "/" \o call[c].in.region \o "/" \o call[c].in.service
                       \o "/aws4_request"
             /\ call[c].stringToSign[2] = ToStr(call[c].amzDate)
             /\ call[c].stringToSign[3] = call[c].credentialScope
        /\ Past(c, {"keyed", "returned"}) =>
             call[c].signingKey.key.key.key.msg = date
        /\ Past(c, {"returned"}) =>
             /\ call[c].returned.amzDate = call[c].amzDate
             /\ call[c].returned.authorization.credential =
                  call[c].in.accessKeyId \o "/" \o call[c].credentialScope

\* A call that captured its instant before midnight and returned after it.
C9_Witness ==
  \E c \in Calls :
    /\ call[c].pc = "returned"
    /\ ToStr(call[c].returned.amzDate) = "20150830T235959Z"
    /\ ToStr(AmzDate(Instant(clock))) = "20150831T000000Z"

\* C10: the signing key is the raw digest of the chain
\* HMAC(HMAC(HMAC(HMAC("AWS4" + secret, dateStamp), region), service), "aws4_request"),
\* each digest being the key of the next step.
C10_KeyChain ==
  \A c \in Calls :
    Past(c, {"keyed", "returned"}) =>
      LET kDate == Hmac(Bytes("AWS4" \o call[c].in.secretAccessKey),
                        ToStr(call[c].dateStamp), "raw")
          kRegion == Hmac(kDate, call[c].in.region, "raw")
          kService == Hmac(kRegion, call[c].in.service, "raw")
      IN  /\ call[c].signingKey = Hmac(kService, "aws4_request", "raw")
          /\ call[c].signature.key = call[c].signingKey

C10_Witness ==
  \E c \in Calls :
    /\ call[c].pc = "keyed"
    /\ call[c].in.secretAccessKey = "wJalrXUtnFEMI/K7MDENG/bPxRfiCYEXAMPLEKEY"
    /\ call[c].signingKey.key.key.key =
         Hmac(Bytes("AWS4wJalrXUtnFEMI/K7MDENG/bPxRfiCYEXAMPLEKEY"), "20150830", "raw")

\* What a call handed to axios was signed over.  A digest is the term of what
\* was hashed, so the Authorization header holds the string to sign, and that
\* the canonical request.
SignedString(req) == req.headers.Authorization.signature.msg
SignedCanonical(req) == SignedString(req)[4].msg
SignedPayloadHash(req) == SignedCanonical(req)[8]

\* C11: every GET is sent without data, and a request sent without data has, in
\* the canonical request that was signed, the SHA-256 digest of the empty string
\* as its payload hash.
C11_EmptyBodyHash ==
  \A i \in DOMAIN sent :
    /\ sent[i].method = "GET" => sent[i].data = Undef
    /\ sent[i].data = Undef => SignedPayloadHash(sent[i]) = Sha256Hex(Str(""))

\* A GET with a query string was sent.
C11_Witness ==
  \E i \in DOMAIN sent :
    /\ sent[i].method = "GET"
    /\ sent[i].data = Undef
    /\ sent[i].url.params # <<>>

\* C12 as stated: no request carries two or more query parameters.
C12_AtMostOneParam == \A i \in DOMAIN sent : Len(sent[i].url.params) <= 1

\* C12 as amended: a request carries at most two query parameters, and two only
\* for `definitions list` with a name filter and a non-empty status, as
\* jobDefinitionName then status, which is their sorted order; the query string
\* that is signed is these parameters as they are, joined by '&'.
C12_QueryParams ==
  \A i \in DOMAIN sent :
    LET params == sent[i].url.params
    IN  /\ Len(params) <= 2
        /\ SignedCanonical(sent[i])[3] = Join(params, "&")
        /\ Len(params) = 2 =>
             /\ argv.cmd = "definitions list"
             /\ params = << "jobDefinitionName=" \o encodeURIComponent(argv.name.s),
                            "status=" \o encodeURIComponent(argv.status.s) >>

\* `definitions list --name my-def` with the default status was sent.
C12_Witness ==
  \E i \in DOMAIN sent :
    sent[i].url.params = <<"jobDefinitionName=my-def", "status=ACTIVE">>

\* C13: however the calls overlap, what a call returned and the headers it sent
\* are those of buildAuthHeader run alone on the call's own method, URL, body
\* and credentials at the instant the call captured, and they stay so while
\* other calls run.
C13_CallsIndependent ==
  \A c \in Calls :
    LET alone == buildAuthHeader(call[c].in, call[c].now)
    IN  /\ Past(c, {"returned", "awaiting"}) => call[c].returned = alone
        /\ Past(c, {"awaiting"}) =>
             /\ call[c].axios.headers.Authorization = alone.authorization
             /\ call[c].axios.headers.XAmzDate = alone.amzDate
             /\ call[c].axios.method = call[c].in.method
             /\ call[c].axios.url = call[c].in.url

\* A call is inside the signer while another, which differs from it in method,
\* secret and timestamp, waits for its response.
C13_Witness ==
  \E c, d \in Calls :
    /\ call[c].pc = "awaiting"
    /\ call[d].pc = "keyed"
    /\ call[c].in.method # call[d].in.method
    /\ call[c].in.secretAccessKey # call[d].in.secretAccessKey
    /\ call[c].amzDate # call[d].amzDate

\* C14: two signing operations on the same method, URL, body and credential that
\* captured the same instant return the same authorization and the same amzDate.
C14_Deterministic ==
  \A c, d \in Calls :
    /\ Past(c, {"returned", "awaiting"})
    /\ Past(d, {"returned", "awaiting"})
    /\ call[c].in = call[d].in
    /\ call[c].now = call[d].now
    => call[c].returned = call[d].returned

\* Two operations on the same input returned, both having captured the last
\* instant before midnight, and midnight has passed.
C14_Witness ==
  \E c, d \in Calls :
    /\ c # d
    /\ call[c].pc = "awaiting"
    /\ call[d].pc = "returned"
    /\ call[c].in = call[d].in
    /\ call[c].now = call[d].now
    /\ call[c].now = Instant(1)
    /\ clock = 2

\* C15: of every request handed to axios, the canonical request that was signed
\* has the request's method, path, query string and host, the hash of the JSON
\* text of the data that is sent (of the empty string when none is sent), and
\* the amzDate that is sent as X-Amz-Date, which is also the timestamp of the
\* string to sign.
C15_SignedIsSent ==
  \A i \in DOMAIN sent :
    LET req == sent[i]
        canonical == SignedCanonical(req)
    IN  /\ canonical[1] = req.method
        /\ canonical[2] = req.url.pathname
        /\ canonical[3] = Join(req.url.params, "&")
        /\ canonical[4] = "host:" \o req.url.host
        /\ canonical[5] = "x-amz-date:" \o ToStr(req.headers.XAmzDate)
        /\ canonical[8] = Sha256Hex(IF req.data = Undef THEN Str("")
                                    ELSE JSONstringify(req.data))
        /\ SignedString(req)[2] = ToStr(req.headers.XAmzDate)

\* A POST with an object as data was sent.
C15_Witness ==
  \E i \in DOMAIN sent :
    /\ sent[i].method = "POST"
    /\ sent[i].data.t = "object"
    /\ SignedPayloadHash(sent[i]) # Sha256Hex(Str(""))

\* The text `config list` prints for a key, written without the stored secret.
ListedLine(k) ==
  IF k = "secretAccessKey" THEN "secretAccessKey: ********" ELSE k \o ": " \o store[k].s

\* C16: what `config list` prints is the heading and one line per key that is
\* set, the line of secretAccessKey being the key and eight asterisks whatever
\* the stored secret is: the text is the same for all stores that differ only
\* in that value.
C16_SecretMasked ==
  (pc = "exit" /\ argv.cmd = "config list" /\ exitCode = 0
     /\ store.secretAccessKey # Undef) =>
    LET all == getAllConfig
    IN  out = <<Event("heading", Undef)>>
                \o [i \in DOMAIN all |-> Event("line", Str(ListedLine(all[i])))]

\* `config list` has printed a store whose secret is the second of the two.
C16_Witness ==
  /\ pc = "exit" /\ argv.cmd = "config list" /\ exitCode = 0
  /\ store.secretAccessKey = Str("other-secret")
  /\ store.accessKeyId # Undef
  /\ \E i \in DOMAIN out : out[i] = Event("line", Str("secretAccessKey: ********"))

=============================================================================
